---- MODULE Spec2Model ----
(***************************************************************************)
(* Model of sendtables/entity.go: the field index decoder                  *)
(* (readFieldIndex), the update application loop (Entity.ApplyUpdate),     *)
(* property observers and bindings (Property.OnUpdate, Property.Bind,      *)
(* Property.firePropertyUpdate), property lookup (Entity.FindProperty)     *)
(* and baseline capture / apply (Entity.initializeBaseline,                *)
(* Entity.applyBaseline).                                                  *)
(***************************************************************************)
EXTENDS Integers, Sequences, FiniteSets, TLC

(***************************************************************************)
(* Bounds of the model.                                                    *)
(***************************************************************************)
\* number of OnUpdate registrations a run makes
MaxRegs == 2
\* number of Bind calls a run makes
MaxBinds == 1
\* number of OnUpdate registrations made from inside handlers in a run
MaxNested == 1
\* number of delegates registered with OnDestroy in a run
MaxDelegates == 3
\* number of Destroy calls a run makes
MaxDestroys == 2
\* number of ApplyUpdate calls the concurrent callers make in a run
MaxCalls == 3

(***************************************************************************)
(* Program constants.                                                      *)
(***************************************************************************)
EndMarker == 4095
maxCoordInt == 16384
ValTypeInt == 0
ValTypeFloat32 == 1
ValTypeFloat64 == 2
ValTypeString == 3
ValTypeVector == 4
ValTypeArray == 5
ValTypeBoolInt == 6

ValueTypes == {ValTypeInt, ValTypeFloat32, ValTypeFloat64, ValTypeString,
               ValTypeVector, ValTypeArray, ValTypeBoolInt}

\* the modelled entity has two properties (len(e.props) = 2)
PropIdx == 0..1

(***************************************************************************)
(* Unsigned integer arithmetic of readFieldIndex (Go uint, 64 bit: none of *)
(* the values below leaves 0..4095, so the width never matters).           *)
(***************************************************************************)
RECURSIVE BitAnd(_, _)
BitAnd(a, b) ==
    IF a = 0 \/ b = 0 THEN 0
    ELSE (a % 2) * (b % 2) + 2 * BitAnd(a \div 2, b \div 2)

RECURSIVE BitOr(_, _)
BitOr(a, b) ==
    IF a = 0 THEN b
    ELSE IF b = 0 THEN a
    ELSE (IF a % 2 = 1 \/ b % 2 = 1 THEN 1 ELSE 0) + 2 * BitOr(a \div 2, b \div 2)

\* a & ^uint(m)
RECURSIVE BitAndNot(_, _)
BitAndNot(a, m) ==
    IF a = 0 THEN 0
    ELSE (a % 2) * (1 - (m % 2)) + 2 * BitAndNot(a \div 2, m \div 2)

Shl(a, n) == a * (2 ^ n)

(***************************************************************************)
(* The bit reader (bit.BitReader) is a cursor over a bit sequence; the     *)
(* model keeps the bits that are still unread.  ReadInt(n) assembles the   *)
(* next n bits, least significant bit first.  Every record the model       *)
(* feeds is complete, so no read passes the end of the stream (BitAt's     *)
(* default is never used by a reachable read).                             *)
(***************************************************************************)
BitAt(rd, j) == IF j <= Len(rd) THEN rd[j] ELSE 0

Skip(rd, n) == IF n >= Len(rd) THEN << >> ELSE SubSeq(rd, n + 1, Len(rd))

ReadBit(rd) == BitAt(rd, 1) = 1

RECURSIVE ReadIntFrom(_, _, _)
ReadIntFrom(rd, j, n) ==
    IF n = 0 THEN 0 ELSE BitAt(rd, j) + 2 * ReadIntFrom(rd, j + 1, n - 1)

ReadInt(rd, n) == ReadIntFrom(rd, 1, n)

(***************************************************************************)
(* readFieldIndex (entity.go:93-120), in the pieces the code has.          *)
(***************************************************************************)
\* ExtWidth with the widths of patterns 32 and 64 exchanged
ExtWidthSwapped(pattern) ==
    CASE pattern = 32 -> 4
      [] pattern = 64 -> 2
      [] pattern = 96 -> 7
      [] OTHER -> 0

\* the switch of lines 104-111: how many further bits replace bits 5-6
ExtWidth(pattern) ==
    CASE pattern = 32 -> 2
      [] pattern = 64 -> 4
      [] pattern = 96 -> 7
      [] OTHER -> 0

\* ReadExtended without `res & ^uint(96)`: bits 5-6 stay as read
ReadExtendedKeep(rd) ==
    LET first == ReadInt(rd, 7)
        w     == ExtWidth(BitAnd(first, BitOr(32, 64)))
    IN  IF w = 0
        THEN [res |-> first, used |-> 7]
        ELSE [res  |-> BitOr(first, Shl(ReadInt(Skip(rd, 7), w), 5)),
              used |-> 7 + w]

\* lines 103-111: ReadInt(7), then the extension selected by res & (32 | 64)
ReadExtended(rd) ==
    LET first == ReadInt(rd, 7)
        w     == ExtWidth(BitAnd(first, BitOr(32, 64)))
    IN  IF w = 0
        THEN [res |-> first, used |-> 7]
        ELSE [res  |-> BitOr(BitAndNot(first, 96), Shl(ReadInt(Skip(rd, 7), w), 5)),
              used |-> 7 + w]

\* FieldIndexResult without the + 1
FieldIndexNoStep(lastIndex, res) ==
    IF res = EndMarker THEN -1 ELSE lastIndex + res

\* lines 114-119: the end marker, else lastIndex + 1 + int(res)
FieldIndexResult(lastIndex, res) ==
    IF res = EndMarker THEN -1 ELSE lastIndex + 1 + res

\* The whole function: the index it returns and the bits it consumed.
\* `newWay && reader.ReadBit()` reads a bit only when newWay is set.
readFieldIndex(rd, lastIndex, nw) ==
    IF nw /\ ReadBit(rd)
    THEN [idx |-> lastIndex + 1, used |-> 1]
    ELSE LET u1 == IF nw THEN 1 ELSE 0
             r1 == Skip(rd, u1)
         IN  IF nw /\ ReadBit(r1)
             THEN [idx  |-> FieldIndexResult(lastIndex, ReadInt(Skip(r1, 1), 3)),
                   used |-> u1 + 1 + 3]
             ELSE LET u2 == IF nw THEN 1 ELSE 0
                      e  == ReadExtended(Skip(r1, u2))
                  IN  [idx  |-> FieldIndexResult(lastIndex, e.res),
                       used |-> u1 + u2 + e.used]

(***************************************************************************)
(* The writer's side of the index encoding: the bits that make the decoder *)
(* produce a given delta.  EncodeExt uses the 7-bit form with the          *)
(* extension patterns 0 / 32 / 64 / 96; EncodeDelta is the shortest form   *)
(* available under newWay.                                                 *)
(***************************************************************************)
BitsOf(v, n) == [j \in 1..n |-> (v \div (2 ^ (j - 1))) % 2]

EncodeExt(d) ==
    IF d < 32 THEN BitsOf(d, 7)
    ELSE IF d < 128 THEN BitsOf((d % 32) + 32, 7) \o BitsOf(d \div 32, 2)
    ELSE IF d < 512 THEN BitsOf((d % 32) + 64, 7) \o BitsOf(d \div 32, 4)
    ELSE BitsOf((d % 32) + 96, 7) \o BitsOf(d \div 32, 7)

EncodeDelta(d, nw) ==
    IF ~nw THEN EncodeExt(d)
    ELSE IF d = 0 THEN <<1>>
    ELSE IF d < 8 THEN <<0, 1>> \o BitsOf(d, 3)
    ELSE <<0, 0>> \o EncodeExt(d)

(***************************************************************************)
(* Property values.  PropertyValue is a struct with one field per shape;   *)
(* the value decoder (propDecoder.decodeProp) is outside this file: it     *)
(* reads the property's encoded value from the reader and stores it.  The  *)
(* model reads ValBits bits and fills every field from the number read, so *)
(* that each kind of binding sees a field that changes.                    *)
(***************************************************************************)
ValBits == 2

StringOf(v) == IF v = 0 THEN "" ELSE IF v = 1 THEN "a" ELSE IF v = 2 THEN "b" ELSE "c"

MkValue(v) ==
    [IntVal    |-> v,
     FloatVal  |-> <<"float32", v>>,
     StringVal |-> StringOf(v),
     VectorVal |-> <<v, 0, v>>,
     ArrayVal  |-> [j \in 1..v |-> j]]

\* the zero PropertyValue of a freshly constructed Property
ZeroValue == MkValue(0)

decodeProp(rd) == [value |-> MkValue(ReadInt(rd, ValBits)), used |-> ValBits]

(***************************************************************************)
(* Update handlers.  A handler is a closure; the model keeps what it       *)
(* closes over.  kind "log" is a caller's observer (it only records its    *)
(* invocation), "nil" a nil handler, "bind" a binder made by Bind (it      *)
(* closes over the variable and the value type), "adder" the closure of    *)
(* initializeBaseline (it closes over the baseline map and i2).  ser is    *)
(* the serial number of the registration (history, not program state).     *)
(***************************************************************************)
Handler(kind, ser, vt, variable, baseline, i2) ==
    [kind |-> kind, ser |-> ser, valueType |-> vt, variable |-> variable,
     baseline |-> baseline, i2 |-> i2]

\* serial numbers the handlers given to OnUpdate take
MaxSers == MaxRegs + MaxNested

LogHandler(ser) == Handler("log", ser, -1, 0, 0, -1)
\* a caller's handler that, when called, registers a further handler on
\* the property with OnUpdate
RegHandler(ser) == Handler("reg", ser, -1, 0, 0, -1)
NilHandler(ser) == Handler("nil", ser, -1, 0, 0, -1)

\* Convert with BoolInt true for every integer but 0
ConvertNonZero(valueType, val) ==
    CASE valueType = ValTypeInt     -> val.IntVal
      [] valueType = ValTypeBoolInt -> (val.IntVal # 0)
      [] valueType = ValTypeFloat32 -> val.FloatVal
      [] valueType = ValTypeFloat64 -> <<"float64", val.FloatVal[2]>>
      [] valueType = ValTypeString  -> val.StringVal
      [] valueType = ValTypeVector  -> val.VectorVal
      [] valueType = ValTypeArray   -> val.ArrayVal

\* the closures of Bind's switch (lines 254-288): what the binder stores
Convert(valueType, val) ==
    CASE valueType = ValTypeInt     -> val.IntVal
      [] valueType = ValTypeBoolInt -> (val.IntVal = 1)
      [] valueType = ValTypeFloat32 -> val.FloatVal
      [] valueType = ValTypeFloat64 -> <<"float64", val.FloatVal[2]>>
      [] valueType = ValTypeString  -> val.StringVal
      [] valueType = ValTypeVector  -> val.VectorVal
      [] valueType = ValTypeArray   -> val.ArrayVal

\* Bind's switch has no default: another value type leaves binder nil
Binder(ser, variable, valueType) ==
    IF valueType \in ValueTypes
    THEN Handler("bind", ser, valueType, variable, 0, -1)
    ELSE NilHandler(ser)

\* the values a caller's variable of the matching shape may hold at Bind
Supplied(valueType) ==
    CASE valueType = ValTypeInt     -> {9}
      [] valueType = ValTypeBoolInt -> {TRUE, FALSE}
      [] valueType = ValTypeFloat32 -> {<<"float32", 9>>}
      [] valueType = ValTypeFloat64 -> {<<"float64", 9>>}
      [] valueType = ValTypeString  -> {"z"}
      [] valueType = ValTypeVector  -> {<<9, 9, 9>>}
      [] valueType = ValTypeArray   -> {<<9>>}

(***************************************************************************)
(* Update records: the new_way bit, the encoded index deltas, the end      *)
(* marker, then one encoded value per listed index.                        *)
(***************************************************************************)
RECURSIVE EncodeDeltas(_, _)
EncodeDeltas(deltas, nw) ==
    IF deltas = << >> THEN EncodeDelta(EndMarker, nw)
    ELSE EncodeDelta(Head(deltas), nw) \o EncodeDeltas(Tail(deltas), nw)

RECURSIVE EncodeValues(_)
EncodeValues(vals) ==
    IF vals = << >> THEN << >>
    ELSE BitsOf(Head(vals), ValBits) \o EncodeValues(Tail(vals))

EncodeRecord(nw, deltas, vals) ==
    <<IF nw THEN 1 ELSE 0>> \o EncodeDeltas(deltas, nw) \o EncodeValues(vals)

RECURSIVE IndicesOf(_, _)
IndicesOf(deltas, last) ==
    IF deltas = << >> THEN << >>
    ELSE <<last + 1 + Head(deltas)>> \o IndicesOf(Tail(deltas), last + 1 + Head(deltas))

\* the index deltas of the records fed to the entity: none, one or both
\* properties, and lists that name a property the entity does not have,
\* first or after one it has (delta 40 takes the extension of pattern 32)
DeltaSeqs == {<< >>, <<0>>, <<1>>, <<0, 0>>, <<2>>, <<0, 1>>, <<1, 40>>}

\* the values the records carry
RecordValues == {1, 2}

\* values are listed for the indices the entity has; decoding stops at the
\* first index it has not, so a record carries nothing useful after it
ValueSeqs(deltas) ==
    {vs \in [1..Len(deltas) -> RecordValues \cup {0}] :
        \A j \in 1..Len(deltas) :
            vs[j] = 0 <=> IndicesOf(deltas, -1)[j] \notin PropIdx}

Records ==
    UNION {{EncodeRecord(x[1], x[2], vs) : vs \in ValueSeqs(x[2])} :
              x \in BOOLEAN \X DeltaSeqs}

(***************************************************************************)
(* State.                                                                  *)
(***************************************************************************)
VARIABLES
    names,               \* e.props[i].entry.name
    value,               \* e.props[i].value
    updateHandlers,      \* e.props[i].updateHandlers
    boundVars,           \* the callers' variables given to Bind
    pool,                \* updatedPropIndicesPool: the slices it holds
    pc,                  \* where the running call stands
    reader,              \* the unread bits of the call's reader
    newWay,              \* ApplyUpdate's newWay
    idx,                 \* ApplyUpdate's idx (line 74)
    updatedPropIndices,  \* ApplyUpdate's slice
    i,                   \* position of the range loop of line 82
    capture,             \* the map of the running initializeBaseline, or 0
    maps,                \* the baseline map made last (the callers keep the latest)
    returned,            \* whether initializeBaseline has returned it
    trace,               \* what the current ApplyUpdate call has done
    nRegs,               \* OnUpdate / Bind calls made
    arg,                 \* the input of the last function call (history)
    ret,                 \* the result of the last function call
    applied,             \* what has been applied to the entity since it was made
    onDestroy,           \* e.onDestroy
    destroyed,           \* the callbacks each Destroy call has invoked (history)
    calls,               \* the ApplyUpdate calls of the concurrent callers
    slices               \* the []int slices the pool's New has allocated

vars == <<names, value, updateHandlers, boundVars, pool, pc, reader, newWay, idx,
          updatedPropIndices, i, capture, maps, returned, trace, nRegs, arg, ret,
          applied, onDestroy, destroyed, calls, slices>>

\* the callbacks of the entity's destruction
lifeVars == <<onDestroy, destroyed>>
\* the callers that run ApplyUpdate side by side
poolVars == <<calls, slices>>

entityVars == <<names, value, updateHandlers, boundVars, maps, returned>>
callVars == <<reader, newWay, idx, updatedPropIndices, i, trace>>

\* no function call made yet: no input, no result
NoArg == [delta |-> -1, reader |-> << >>, lastIndex |-> -1, name |-> ""]
NoRet == [kind |-> "none", val |-> -1]

Event(ev, prop, ser, val) == [ev |-> ev, prop |-> prop, ser |-> ser, val |-> val]

NameOf(p) == IF p = 0 THEN "m_a" ELSE IF p = 1 THEN "m_b" ELSE "m_c"

\* the state after construction: no handler, zero values, an empty pool
EntityInit ==
    /\ value = [p \in PropIdx |-> ZeroValue]
    /\ updateHandlers = [p \in PropIdx |-> << >>]
    /\ boundVars = << >>
    /\ pool = << >>
    /\ i = 0
    /\ capture = 0
    /\ maps = << >>
    /\ returned = {}
    /\ trace = << >>
    /\ nRegs = 0
    /\ ret = NoRet
    /\ applied = "none"
    /\ onDestroy = << >>
    /\ destroyed = << >>
    /\ calls = << >>
    /\ slices = << >>

\* no call is running
NoCall ==
    /\ reader = << >>
    /\ newWay = FALSE
    /\ idx = -1
    /\ updatedPropIndices = << >>

Init ==
    /\ EntityInit
    /\ NoCall
    /\ arg = NoArg
    /\ names = [p \in PropIdx |-> NameOf(p)]
    /\ pc = "idle"

(***************************************************************************)
(* Property.OnUpdate and Property.Bind.                                    *)
(***************************************************************************)
\* AppendHandler putting the new handler first
PrependHandler(handlers, h) == <<h>> \o handlers

\* line 229: append
AppendHandler(handlers, h) == Append(handlers, h)

OnUpdate(p, kind) ==
    /\ pc = "idle"
    /\ nRegs < MaxRegs
    /\ updateHandlers' = [updateHandlers EXCEPT ![p] =
           AppendHandler(@, CASE kind = "log" -> LogHandler(nRegs + 1)
                              [] kind = "reg" -> RegHandler(nRegs + 1)
                              [] OTHER -> NilHandler(nRegs + 1))]
    /\ nRegs' = nRegs + 1
    /\ UNCHANGED <<names, value, boundVars, maps, returned, pool, pc, capture,
                   arg, ret, applied>>
    /\ UNCHANGED <<callVars, lifeVars, poolVars>>

\* Bind that also stores the property's current value right away
BindEager(p, valueType, supplied) ==
    /\ pc = "idle"
    /\ Len(boundVars) < MaxBinds
    /\ boundVars' = Append(boundVars,
           [valueType |-> valueType, val |-> Convert(valueType, value[p]),
            supplied |-> supplied, prop |-> p, updated |-> FALSE])
    /\ updateHandlers' = [updateHandlers EXCEPT ![p] =
           Append(@, Binder(MaxSers + Len(boundVars) + 1,
                            Len(boundVars) + 1, valueType))]
    /\ UNCHANGED <<names, value, maps, returned, pool, pc, capture, nRegs, arg, ret>>
    /\ UNCHANGED <<reader, newWay, idx, updatedPropIndices, i, trace>>
    /\ UNCHANGED <<applied, lifeVars, poolVars>>

\* lines 252-290.  The caller passes a pointer to a variable of the shape
\* valueType needs, holding the value `supplied`.  The variable's record
\* keeps, as history, the supplied value, the property and whether that
\* property has been updated since.
Bind(p, valueType, supplied) ==
    /\ pc = "idle"
    /\ Len(boundVars) < MaxBinds
    /\ boundVars' = Append(boundVars,
           [valueType |-> valueType, val |-> supplied,
            supplied |-> supplied, prop |-> p, updated |-> FALSE])
    /\ updateHandlers' = [updateHandlers EXCEPT ![p] =
           AppendHandler(@, Binder(MaxSers + Len(boundVars) + 1,
                                   Len(boundVars) + 1, valueType))]
    /\ UNCHANGED <<names, value, maps, returned, pool, pc, capture, nRegs, arg, ret>>
    /\ UNCHANGED <<callVars, applied, lifeVars, poolVars>>

(***************************************************************************)
(* Entity.ApplyUpdate (lines 73-91).                                       *)
(***************************************************************************)
\* lines 78-80: the index loop from lastIndex = last.  acc is what the loop
\* has appended so far, evs the events.
RECURSIVE ReadIndices(_, _, _, _, _)
ReadIndices(rd, last, nw, acc, evs) ==
    LET r == readFieldIndex(rd, last, nw)
        e == Append(evs, Event("index", r.idx, 0, ZeroValue))
    IN  IF r.idx = -1
        THEN [list |-> acc, reader |-> Skip(rd, r.used), events |-> e]
        ELSE ReadIndices(Skip(rd, r.used), r.idx, nw, Append(acc, r.idx), e)

\* lines 74-75 and 78-80 on each record: the newWay bit, then the index loop
IndexLoop ==
    [rec \in Records |->
        ReadIndices(Skip(rec, 1), -1, ReadBit(rec), << >>,
                    <<Event("newWay", -1, 0, ZeroValue)>>)]

\* lines 74-80: idx := -1, the newWay bit, a slice from the pool, the index
\* loop.  Get hands out the pooled slice, or a new one (line 64) when the
\* pool is empty or has dropped what it held.
EnterApplyUpdate(rec) ==
    LET nw == ReadBit(rec)
        got == IF pool = << >> THEN << >> ELSE Head(pool)
        r == IndexLoop[rec]
    IN  /\ newWay' = nw
        /\ idx' = -1
        /\ pool' = IF pool = << >> THEN << >> ELSE Tail(pool)
        /\ updatedPropIndices' = got \o r.list
        /\ reader' = r.reader
        /\ trace' = r.events
        /\ i' = 1
        /\ pc' = "range"

ApplyUpdate(rec) ==
    /\ pc = "idle"
    /\ EnterApplyUpdate(rec)
    /\ UNCHANGED <<capture, nRegs, arg, ret>>
    /\ UNCHANGED <<entityVars, applied, lifeVars, poolVars>>

\* the map baseline[i2] = val makes of a map
MapPut(m, key, val) == [j \in (DOMAIN m) \cup {key} |-> IF j = key THEN val ELSE m[j]]

\* RangeOver for a loop that looks at the list anew on every turn
RangeLive(snapshot, current) == current

\* line 234: range evaluates pe.updateHandlers once, before the first
\* turn; the loop runs over that slice whatever is appended meanwhile
RangeOver(snapshot, current) == snapshot

\* lines 234-238: firePropertyUpdate of property p ranges over the slice
\* hsl from position j and calls each handler that is not nil with the
\* property's value.  st is what the handlers write: the bound variables,
\* the baseline maps, the property's handler list (a handler that calls
\* OnUpdate, line 229), and the events.
RECURSIVE firePropertyUpdate(_, _, _, _, _)
firePropertyUpdate(p, val, hsl, j, st) ==
    IF j > Len(RangeOver(hsl, st.handlers)) THEN st
    ELSE LET h == RangeOver(hsl, st.handlers)[j]
             st1 == CASE h.kind = "reg" /\ st.nRegs < MaxSers ->
                          [st EXCEPT !.handlers = AppendHandler(@, LogHandler(st.nRegs + 1)),
                                     !.nRegs = @ + 1,
                                     !.events = Append(Append(@, Event("handler", p, h.ser, val)),
                                                       Event("register", p, st.nRegs + 1, val))]
                      [] h.kind = "reg" /\ st.nRegs >= MaxSers ->
                          [st EXCEPT !.events = Append(@, Event("handler", p, h.ser, val))]
                      [] h.kind = "bind" ->
                          [st EXCEPT !.boundVars[h.variable].val =
                                         Convert(h.valueType, val),
                                     !.events = Append(@, Event("handler", p, h.ser, val))]
                      [] h.kind = "adder" ->
                          [st EXCEPT !.maps[h.baseline] = MapPut(@, h.i2, val),
                                     !.events = Append(@, Event("handler", p, h.ser, val))]
                      [] h.kind = "log" ->
                          [st EXCEPT !.events = Append(@, Event("handler", p, h.ser, val))]
                      [] OTHER -> st
         IN  firePropertyUpdate(p, val, hsl, j + 1, st1)

\* IndexPanic undoing the call: the properties listed before the failing
\* index get their zero value back
IndexPanicRollback(p) ==
    /\ pc' = "panic"
    /\ trace' = Append(trace, Event("panic", p, 0, ZeroValue))
    /\ value' = [q \in PropIdx |->
           IF \E j \in 1..(i - 1) : updatedPropIndices[j] = q
           THEN ZeroValue ELSE value[q]]
    /\ UNCHANGED <<boundVars, maps, reader, i, updateHandlers, nRegs>>

\* IndexPanic with a bounds test that skips the index instead
IndexSkip(p) ==
    /\ pc' = "range"
    /\ i' = i + 1
    /\ trace' = trace
    /\ UNCHANGED <<value, boundVars, maps, reader, updateHandlers, nRegs>>

\* line 83, &e.props[idx] with an index the entity does not have: the
\* index expression panics, and the call never returns
IndexPanic(p) ==
    /\ pc' = "panic"
    /\ trace' = Append(trace, Event("panic", p, 0, ZeroValue))
    /\ UNCHANGED <<value, boundVars, maps, reader, i, updateHandlers, nRegs>>

\* DecodeAndFire with lines 83 and 84 exchanged: the handlers are called
\* before the value is decoded
FireThenDecode(p) ==
    LET d == decodeProp(reader)
        marked == [v \in DOMAIN boundVars |->
                     IF boundVars[v].prop = p
                     THEN [boundVars[v] EXCEPT !.updated = TRUE]
                     ELSE boundVars[v]]
        st == firePropertyUpdate(p, value[p], updateHandlers[p], 1,
                  [boundVars |-> marked, maps |-> maps, events |-> trace,
                   handlers |-> updateHandlers[p], nRegs |-> nRegs])
    IN  /\ value' = [value EXCEPT ![p] = d.value]
        /\ reader' = Skip(reader, d.used)
        /\ boundVars' = st.boundVars
        /\ maps' = st.maps
        /\ updateHandlers' = [updateHandlers EXCEPT ![p] = st.handlers]
        /\ nRegs' = st.nRegs
        /\ trace' = Append(st.events, Event("decode", p, 0, d.value))
        /\ i' = i + 1
        /\ pc' = "range"

\* lines 83-84 for a property the entity has: decodeProp stores the decoded
\* value, then firePropertyUpdate calls the property's handlers with it
DecodeAndFire(p) ==
    LET d == decodeProp(reader)
        marked == [v \in DOMAIN boundVars |->
                     IF boundVars[v].prop = p
                     THEN [boundVars[v] EXCEPT !.updated = TRUE]
                     ELSE boundVars[v]]
        st == firePropertyUpdate(p, d.value, updateHandlers[p], 1,
                  [boundVars |-> marked, maps |-> maps,
                   events |-> Append(trace, Event("decode", p, 0, d.value)),
                   handlers |-> updateHandlers[p], nRegs |-> nRegs])
    IN  /\ value' = [value EXCEPT ![p] = d.value]
        /\ reader' = Skip(reader, d.used)
        /\ boundVars' = st.boundVars
        /\ maps' = st.maps
        /\ updateHandlers' = [updateHandlers EXCEPT ![p] = st.handlers]
        /\ nRegs' = st.nRegs
        /\ trace' = st.events
        /\ i' = i + 1
        /\ pc' = "range"

\* lines 82-85, one turn of the loop over the listed indices
UpdateStep ==
    /\ pc = "range"
    /\ i <= Len(updatedPropIndices)
    /\ LET p == updatedPropIndices[i]
       IN  IF p \notin PropIdx THEN IndexPanic(p) ELSE DecodeAndFire(p)
    /\ UNCHANGED <<names, returned, pool, newWay, idx, updatedPropIndices,
                   capture, arg, ret>>
    /\ UNCHANGED <<applied, lifeVars, poolVars>>

\* what the entity has had applied once `what` has been applied to it too
Applying(what) == IF applied = "none" THEN what ELSE "several"

\* lines 88-90: the slice is cut to length 0 and put back.  The call
\* returns to its caller: initializeBaseline, when one is running.
ApplyUpdateReturn ==
    /\ pc = "range"
    /\ i > Len(updatedPropIndices)
    /\ pool' = Append(pool, SubSeq(updatedPropIndices, 1, 0))
    /\ updatedPropIndices' = << >>
    /\ reader' = << >>
    /\ i' = 0
    /\ trace' = << >>
    /\ pc' = IF capture # 0 THEN "captured" ELSE "idle"
    /\ applied' = Applying(IF capture # 0 THEN "capture" ELSE "update")
    /\ UNCHANGED <<newWay, idx, capture, nRegs, arg, ret>>
    /\ UNCHANGED <<entityVars, lifeVars, poolVars>>

(***************************************************************************)
(* Entity.initializeBaseline (lines 123-141) and Entity.applyBaseline      *)
(* (lines 144-148).                                                        *)
(***************************************************************************)
EmptyMap == [j \in {} |-> ZeroValue]

\* Adder without the copy i2 := i: every adder writes to the key the loop
\* variable holds after the loop
AdderSharedKey(baseline, p) ==
    Handler("adder", MaxSers + MaxBinds + 1 + p, -1, 0, baseline, 1)

\* the adder of lines 127-129 for property p; the adders are registered
\* after every handler the callers have registered
Adder(baseline, p) == Handler("adder", MaxSers + MaxBinds + 1 + p, -1, 0, baseline, p)

\* lines 124-134: a fresh map, an adder on every property, then ApplyUpdate.
\* Of the maps returned before, the model keeps the latest.
InitializeBaseline(rec) ==
    /\ pc = "idle"
    /\ maps' = <<EmptyMap>>
    /\ returned' = {}
    /\ capture' = 1
    /\ updateHandlers' = [p \in PropIdx |->
           AppendHandler(updateHandlers[p], Adder(1, p))]
    /\ EnterApplyUpdate(rec)
    /\ UNCHANGED <<names, value, boundVars, nRegs, arg, ret>>
    /\ UNCHANGED <<applied, lifeVars, poolVars>>

\* ClearedHandlers taking out the adders only
ClearedAdders(handlers) ==
    [p \in DOMAIN handlers |->
        SelectSeq(handlers[p], LAMBDA h : h.kind # "adder")]

\* ClearedHandlers without lines 136-138: the lists stay as they are
KeptHandlers(handlers) == handlers

\* lines 136-138: what the handler lists are after the capture
ClearedHandlers(handlers) == [p \in DOMAIN handlers |-> << >>]

\* lines 136-140: every handler list becomes nil, the map is returned
InitializeBaselineReturn ==
    /\ pc = "captured"
    /\ updateHandlers' = ClearedHandlers(updateHandlers)
    /\ returned' = returned \cup {capture}
    /\ capture' = 0
    /\ pc' = "idle"
    /\ UNCHANGED <<names, value, boundVars, maps, pool, nRegs, arg, ret>>
    /\ UNCHANGED <<callVars, applied, lifeVars, poolVars>>

\* the baselines a caller may hold for this property layout: what a capture
\* of one of the records, on this entity or another of its class, returns
Baselines ==
    UNION {[S -> {MkValue(v) : v \in RecordValues}] : S \in SUBSET PropIdx}

\* BaselineApplied copying the values of the keys above 0 only
BaselineAppliedAboveZero(values, baseline) ==
    [p \in DOMAIN values |->
        IF p \in DOMAIN baseline /\ p > 0 THEN baseline[p] ELSE values[p]]

\* lines 145-147: the property values after the loop over the map's keys
BaselineApplied(values, baseline) ==
    [p \in DOMAIN values |->
        IF p \in DOMAIN baseline THEN baseline[p] ELSE values[p]]

\* lines 144-148: each captured value is copied into its property
ApplyBaseline(baseline) ==
    /\ pc = "idle"
    /\ value' = BaselineApplied(value, baseline)
    /\ applied' = Applying("baseline")
    /\ UNCHANGED <<names, updateHandlers, boundVars, maps, returned, pool, pc,
                   capture, nRegs, arg, ret>>
    /\ UNCHANGED <<callVars, lifeVars, poolVars>>

Next ==
    \/ \E p \in PropIdx, kind \in {"log", "nil"} : OnUpdate(p, kind)
    \/ \E rec \in Records : ApplyUpdate(rec)
    \/ UpdateStep
    \/ ApplyUpdateReturn
    \/ \E rec \in Records : InitializeBaseline(rec)
    \/ InitializeBaselineReturn
    \/ \E baseline \in Baselines : ApplyBaseline(baseline)

Spec == Init /\ [][Next]_vars

(***************************************************************************)
(* The same entity with bound variables: Bind, updates, applied baselines. *)
(***************************************************************************)
NextBind ==
    \/ \E p \in PropIdx, vt \in ValueTypes : \E supplied \in Supplied(vt) :
           Bind(p, vt, supplied)
    \/ \E rec \in Records : ApplyUpdate(rec)
    \/ UpdateStep
    \/ ApplyUpdateReturn
    \/ \E baseline \in Baselines : ApplyBaseline(baseline)

SpecBind == Init /\ [][NextBind]_vars

(***************************************************************************)
(* One record, captured as a baseline and applied to entities of the same  *)
(* class.  The entity described is replaced by a newly constructed one of  *)
(* the same property layout (construction is outside this file: every      *)
(* value zero, no handler); the baseline map stays with the caller.        *)
(***************************************************************************)
Construct ==
    /\ pc = "idle"
    /\ value' = [p \in PropIdx |-> ZeroValue]
    /\ updateHandlers' = [p \in PropIdx |-> << >>]
    /\ applied' = "none"
    /\ UNCHANGED <<names, boundVars, maps, returned, pool, pc, capture, nRegs,
                   arg, ret>>
    /\ UNCHANGED <<callVars, lifeVars, poolVars>>

\* the record of the run is held in arg.reader
InitBaseline ==
    /\ EntityInit
    /\ NoCall
    /\ names = [p \in PropIdx |-> NameOf(p)]
    /\ pc = "idle"
    /\ \E rec \in Records : arg = [NoArg EXCEPT !.reader = rec]

NextBaseline ==
    \/ \E p \in PropIdx, kind \in {"log", "nil"} : OnUpdate(p, kind)
    \/ \E rec \in {arg.reader} : ApplyUpdate(rec)
    \/ UpdateStep
    \/ ApplyUpdateReturn
    \/ \E rec \in {arg.reader} : InitializeBaseline(rec)
    \/ InitializeBaselineReturn
    \/ \E baseline \in {maps[j] : j \in returned} : ApplyBaseline(baseline)
    \/ Construct

SpecBaseline == InitBaseline /\ [][NextBaseline]_vars

(***************************************************************************)
(* Handlers and bound variables of the callers, registered on the new      *)
(* entity before anything is applied to it, then captures and updates.     *)
(***************************************************************************)
NextCapture ==
    \/ applied = "none" /\ \E p \in PropIdx : OnUpdate(p, "log")
    \/ applied = "none" /\ \E p \in PropIdx :
           \E supplied \in Supplied(ValTypeInt) : Bind(p, ValTypeInt, supplied)
    \/ \E rec \in Records : ApplyUpdate(rec)
    \/ UpdateStep
    \/ ApplyUpdateReturn
    \/ \E rec \in Records : InitializeBaseline(rec)
    \/ InitializeBaselineReturn

SpecCapture == Init /\ [][NextCapture]_vars

(***************************************************************************)
(* Callers' handlers that register further handlers when they are called.  *)
(***************************************************************************)
NextReentrant ==
    \/ \E p \in PropIdx, kind \in {"log", "reg"} : OnUpdate(p, kind)
    \/ \E rec \in Records : ApplyUpdate(rec)
    \/ UpdateStep
    \/ ApplyUpdateReturn

SpecReentrant == Init /\ [][NextReentrant]_vars

(***************************************************************************)
(* The index loop of ApplyUpdate (lines 78-80) on its own, over every bit  *)
(* stream of StreamBits bits: a call of readFieldIndex is made while the   *)
(* last one did not return -1 and the stream still holds the bits the call *)
(* reads.                                                                  *)
(***************************************************************************)
\* the longest encoding of one index: two newWay bits, seven bits, and the
\* seven bits of pattern 96
StreamBits == 2 + 7 + 7

ReadFieldIndexCall ==
    /\ pc = "readIndex"
    /\ LET r == readFieldIndex(reader, idx, newWay)
       IN  /\ r.used <= Len(reader)
           /\ arg' = [arg EXCEPT !.reader = reader, !.lastIndex = idx]
           /\ ret' = [kind |-> "index", val |-> r.idx]
           /\ idx' = r.idx
           /\ reader' = Skip(reader, r.used)
           /\ IF r.idx # -1
              THEN /\ updatedPropIndices' = Append(updatedPropIndices, r.idx)
                   /\ pc' = "readIndex"
              ELSE /\ updatedPropIndices' = updatedPropIndices
                   /\ pc' = "range"
    /\ UNCHANGED <<newWay, i, trace, pool, capture, nRegs>>
    /\ UNCHANGED <<entityVars, applied, lifeVars, poolVars>>

InitIdx ==
    /\ EntityInit
    /\ names = [p \in PropIdx |-> NameOf(p)]
    /\ pc = "readIndex"
    /\ \E bits \in [1..StreamBits -> {0, 1}], nw \in BOOLEAN :
          /\ reader = bits
          /\ newWay = nw
          /\ idx = -1
          /\ updatedPropIndices = << >>
          /\ arg = NoArg

NextIdx == ReadFieldIndexCall

SpecIdx == InitIdx /\ [][NextIdx]_vars

(***************************************************************************)
(* ApplyUpdate with its index loop taken one readFieldIndex call at a      *)
(* time, on the records of the model (each ends its index list with the    *)
(* end marker).  The call is sequential code: each of its steps is taken   *)
(* once it is enabled.                                                     *)
(***************************************************************************)
\* LoopContinues for a loop that has no exit
LoopContinuesAlways(index) == TRUE

\* line 78, the loop's condition: idx != -1
LoopContinues(index) == index # -1

\* the readFieldIndex calls of lines 78-80 on a reader, from lastIndex =
\* last: what each returns and consumes, up to the call that returns -1
RECURSIVE ReadCalls(_, _, _)
ReadCalls(rd, last, nw) ==
    LET r == readFieldIndex(rd, last, nw)
    IN  IF r.idx = -1 THEN <<r>>
        ELSE <<r>> \o ReadCalls(Skip(rd, r.used), r.idx, nw)

\* the calls the index loop makes on each record
IndexCalls == [rec \in Records |-> ReadCalls(Skip(rec, 1), -1, ReadBit(rec))]

\* lines 74-76: idx := -1, the newWay bit, the slice from the pool.  The
\* record is kept in arg.reader.
BeginApplyUpdate(rec) ==
    /\ pc = "idle"
    /\ newWay' = ReadBit(rec)
    /\ idx' = -1
    /\ pool' = IF pool = << >> THEN << >> ELSE Tail(pool)
    /\ updatedPropIndices' = IF pool = << >> THEN << >> ELSE Head(pool)
    /\ reader' = Skip(rec, 1)
    /\ trace' = <<Event("newWay", -1, 0, ZeroValue)>>
    /\ i' = 1
    /\ arg' = [NoArg EXCEPT !.reader = rec]
    /\ ret' = NoRet
    /\ pc' = "readIndex"
    /\ UNCHANGED <<capture, nRegs>>
    /\ UNCHANGED <<entityVars, applied, lifeVars, poolVars>>

\* line 78, one turn of the index loop: the next readFieldIndex call on the
\* record, its result assigned to idx, and line 79 when the loop goes on
ReadIndexStep ==
    /\ pc = "readIndex"
    /\ Len(updatedPropIndices) + 1 \in DOMAIN IndexCalls[arg.reader]
    /\ LET r == IndexCalls[arg.reader][Len(updatedPropIndices) + 1]
       IN  /\ ret' = [kind |-> "index", val |-> r.idx]
           /\ idx' = r.idx
           /\ reader' = Skip(reader, r.used)
           /\ IF LoopContinues(r.idx)
              THEN /\ updatedPropIndices' = Append(updatedPropIndices, r.idx)
                   /\ pc' = "readIndex"
              ELSE /\ updatedPropIndices' = updatedPropIndices
                   /\ pc' = "range"
    /\ UNCHANGED <<newWay, i, trace, pool, capture, nRegs, arg>>
    /\ UNCHANGED <<entityVars, applied, lifeVars, poolVars>>

NextStepwise ==
    \/ \E rec \in Records : BeginApplyUpdate(rec)
    \/ ReadIndexStep
    \/ UpdateStep
    \/ ApplyUpdateReturn

SpecStepwise ==
    /\ Init
    /\ [][NextStepwise]_vars
    /\ WF_vars(ReadIndexStep)
    /\ WF_vars(UpdateStep)
    /\ WF_vars(ApplyUpdateReturn)

(***************************************************************************)
(* readFieldIndex on the encodings a writer produces: the delta, written   *)
(* with the extension patterns, is read back from any previous index.      *)
(***************************************************************************)
\* the previous indices the round trip starts from go up to MaxPrev
MaxPrev == 2

InitRoundTrip ==
    /\ EntityInit
    /\ names = [p \in PropIdx |-> NameOf(p)]
    /\ pc = "readIndex"
    /\ updatedPropIndices = << >>
    /\ \E d \in 0..EndMarker, nw \in BOOLEAN, last \in -1..MaxPrev :
          /\ reader = (IF nw THEN <<0, 0>> ELSE << >>) \o EncodeExt(d)
          /\ newWay = nw
          /\ idx = last
          /\ arg = [NoArg EXCEPT !.delta = d]

SpecRoundTrip == InitRoundTrip /\ [][NextIdx]_vars

(***************************************************************************)
(* Entity.FindProperty (lines 42-53) on entities of up to FindProps        *)
(* properties named from PropNames; two properties may share a name.       *)
(***************************************************************************)
FindProps == 4

PropNames == {"m_a", "m_b", "m_c"}

\* the loop of lines 44-51 from property j on; prop is the match so far
\* (-1 is nil)
RECURSIVE FindFrom(_, _, _, _)
FindFrom(nms, name, j, prop) ==
    IF j \notin DOMAIN nms THEN [kind |-> IF prop = -1 THEN "nil" ELSE "prop", val |-> prop]
    ELSE IF nms[j] = name
         THEN IF prop # -1
              THEN [kind |-> "panic", val |-> -1]
              ELSE FindFrom(nms, name, j + 1, j)
         ELSE FindFrom(nms, name, j + 1, prop)

\* FindProperty returning the first property of that name it meets
FindFirst(nms, name) ==
    IF \E j \in DOMAIN nms : nms[j] = name
    THEN [kind |-> "prop",
          val  |-> CHOOSE j \in DOMAIN nms :
                       nms[j] = name /\ \A x \in DOMAIN nms : nms[x] = name => j <= x]
    ELSE [kind |-> "nil", val |-> -1]

\* lines 42-53: the result of the scan over all properties
FindPropertyResult(nms, name) == FindFrom(nms, name, 0, -1)

FindProperty(name) ==
    /\ pc = "idle"
    /\ arg' = [arg EXCEPT !.name = name]
    /\ ret' = FindPropertyResult(names, name)
    /\ pc' = "found"
    /\ UNCHANGED <<names, value, updateHandlers, boundVars, maps, returned, pool,
                   capture, nRegs>>
    /\ UNCHANGED <<callVars, applied, lifeVars, poolVars>>

InitFind ==
    /\ EntityInit
    /\ NoCall
    /\ arg = NoArg
    /\ names \in UNION {[0..(n - 1) -> PropNames] : n \in 0..FindProps}
    /\ pc = "idle"

NextFind == \E name \in PropNames : FindProperty(name)

SpecFind == InitFind /\ [][NextFind]_vars

(***************************************************************************)
(* Entity.Position (lines 153-165) and coordFromCell (lines 168-170).      *)
(* A float64 is modelled by twice its value: the offsets of the model are  *)
(* multiples of 0.5 and the integers are small, so every float64 operation *)
(* of Position is exact.  The int arithmetic is Go's 64-bit one; the cells *)
(* and exponents of the model stay far from its limits.                    *)
(***************************************************************************)
PositionNames == <<"m_cellbits", "m_cellX", "m_cellY", "m_cellZ", "m_vecOrigin">>

\* float64(n) of an int n
Float64OfInt(n) == 2 * n

\* 1 << uint(n) as an int: a negative n converts to a shift count of 64 or
\* more, which leaves 0
ShiftLeftOne(n) == IF n < 0 \/ n >= 64 THEN 0 ELSE 2 ^ n

\* coordFromCell without the recentring by maxCoordInt
coordFromCellPlain(cell, cellWidth, offset) ==
    Float64OfInt(cell * cellWidth) + offset

\* line 169
coordFromCell(cell, cellWidth, offset) ==
    Float64OfInt(cell * cellWidth - maxCoordInt) + offset

\* PropertyValueOf giving the zero value for a property that is not there
PropertyValueOrZero(nms, vals, name) ==
    LET f == FindPropertyResult(nms, name)
    IN  IF f.kind = "panic" THEN [kind |-> "panic", val |-> ZeroValue]
        ELSE IF f.kind = "nil" THEN [kind |-> "value", val |-> ZeroValue]
        ELSE [kind |-> "value", val |-> vals[f.val]]

\* e.FindProperty(name).value (lines 154-158): FindProperty may panic, and
\* the field access on the nil pointer it returns for a missing property
\* panics
PropertyValueOf(nms, vals, name) ==
    LET f == FindPropertyResult(nms, name)
    IN  IF f.kind = "prop" THEN [kind |-> "value", val |-> vals[f.val]]
        ELSE [kind |-> "panic", val |-> ZeroValue]

\* lines 153-165: the five lookups in their order, then the vector
Position ==
    /\ pc = "idle"
    /\ LET looked == [j \in 1..5 |-> PropertyValueOf(names, value, PositionNames[j])]
           cellWidth == ShiftLeftOne(looked[1].val.IntVal)
           cellX == looked[2].val.IntVal
           cellY == looked[3].val.IntVal
           cellZ == looked[4].val.IntVal
           offset == looked[5].val.VectorVal
       IN  ret' = IF \E j \in 1..5 : looked[j].kind = "panic"
                  THEN [kind |-> "panic", val |-> -1]
                  ELSE [kind |-> "vector",
                        val  |-> <<coordFromCell(cellX, cellWidth, offset[1]),
                                   coordFromCell(cellY, cellWidth, offset[2]),
                                   coordFromCell(cellZ, cellWidth, offset[3])>>]
    /\ pc' = "positioned"
    /\ UNCHANGED <<names, value, updateHandlers, boundVars, maps, returned, pool,
                   capture, nRegs, arg>>
    /\ UNCHANGED <<callVars, applied, lifeVars, poolVars>>

\* the property lists Position is called on: the five properties in two
\* orders, with one of them missing (another property in its place), and
\* with one of the names on a second property
PositionLayouts ==
    LET full == [j \in 0..4 |-> PositionNames[j + 1]]
    IN  {full, [j \in 0..4 |-> PositionNames[5 - j]]}
        \cup {[full EXCEPT ![j] = "m_other"] : j \in 0..4}
        \cup {[j \in 0..5 |-> IF j = 5 THEN PositionNames[x] ELSE full[j]] : x \in 1..5}

\* the exponents, cells and offset components (in halves) of the model
CellBits == {0, 5, 14}
Cells == {0, 3, 10}
Offsets == {-1, 0, 3}

\* the value of a property of the given name
PositionValue(name, bits, cell, offset) ==
    IF name = "m_cellbits" THEN [ZeroValue EXCEPT !.IntVal = bits]
    ELSE IF name = "m_cellX" THEN [ZeroValue EXCEPT !.IntVal = cell[1]]
    ELSE IF name = "m_cellY" THEN [ZeroValue EXCEPT !.IntVal = cell[2]]
    ELSE IF name = "m_cellZ" THEN [ZeroValue EXCEPT !.IntVal = cell[3]]
    ELSE IF name = "m_vecOrigin" THEN [ZeroValue EXCEPT !.VectorVal = offset]
    ELSE ZeroValue

InitPosition ==
    /\ updateHandlers = [p \in PropIdx |-> << >>]
    /\ boundVars = << >>
    /\ pool = << >>
    /\ i = 0
    /\ capture = 0
    /\ maps = << >>
    /\ returned = {}
    /\ trace = << >>
    /\ nRegs = 0
    /\ ret = NoRet
    /\ applied = "none"
    /\ onDestroy = << >>
    /\ destroyed = << >>
    /\ calls = << >>
    /\ slices = << >>
    /\ NoCall
    /\ arg = NoArg
    /\ pc = "idle"
    /\ names \in PositionLayouts
    /\ \E bits \in CellBits, cx \in Cells, cy \in {0, 3}, ox \in Offsets, oz \in {0, 3} :
          value = [j \in DOMAIN names |->
                      PositionValue(names[j], bits, <<cx, cy, 0>>, <<ox, 0, oz>>)]

NextPosition == Position

SpecPosition == InitPosition /\ [][NextPosition]_vars

(***************************************************************************)
(* Entity.OnDestroy (lines 173-175) and Entity.Destroy (lines 180-184).    *)
(* A delegate is a caller's func(); the model keeps its serial number and  *)
(* what it does: "log" only records that it ran, "reg" also registers a    *)
(* further delegate on the entity while Destroy is running.                *)
(***************************************************************************)
Delegate(kind, ser) == [kind |-> kind, ser |-> ser]

\* line 174: append
OnDestroy(kind) ==
    /\ pc = "idle"
    /\ Len(onDestroy) < MaxDelegates
    /\ onDestroy' = Append(onDestroy, Delegate(kind, Len(onDestroy) + 1))
    /\ UNCHANGED <<names, value, updateHandlers, boundVars, maps, returned, pool,
                   pc, capture, nRegs, arg, ret, applied, destroyed>>
    /\ UNCHANGED <<callVars, poolVars>>

\* DelegatesRanged reading the list anew at every turn of the loop
DelegatesLive(snapshot, current) == current

\* line 181: range evaluates e.onDestroy once, before the first turn
DelegatesRanged(snapshot, current) == snapshot

\* lines 181-183 from position j of the list the loop ranges over; st is
\* e.onDestroy and the delegates run so far
RECURSIVE runDelegates(_, _, _)
runDelegates(snapshot, j, st) ==
    LET ranged == DelegatesRanged(snapshot, st.onDestroy)
    IN  IF j > Len(ranged) THEN st
        ELSE LET f == ranged[j]
                 st1 == [st EXCEPT !.ran = Append(@, f.ser)]
                 st2 == IF f.kind = "reg" /\ Len(st.onDestroy) < MaxDelegates
                        THEN [st1 EXCEPT !.onDestroy =
                                 Append(@, Delegate("log", Len(st.onDestroy) + 1))]
                        ELSE st1
             IN  runDelegates(snapshot, j + 1, st2)

\* lines 180-184.  The call's entry in `destroyed` keeps the delegates that
\* were registered when the call was made and the ones it ran.
Destroy ==
    /\ pc = "idle"
    /\ Len(destroyed) < MaxDestroys
    /\ LET st == runDelegates(onDestroy, 1, [onDestroy |-> onDestroy, ran |-> << >>])
       IN  /\ onDestroy' = st.onDestroy
           /\ destroyed' = Append(destroyed,
                  [before |-> [j \in 1..Len(onDestroy) |-> onDestroy[j].ser],
                   ran    |-> st.ran])
    /\ UNCHANGED <<names, value, updateHandlers, boundVars, maps, returned, pool,
                   pc, capture, nRegs, arg, ret, applied>>
    /\ UNCHANGED <<callVars, poolVars>>

NextDestroy ==
    \/ \E kind \in {"log", "reg"} : OnDestroy(kind)
    \/ Destroy

SpecDestroy == Init /\ [][NextDestroy]_vars

(***************************************************************************)
(* ApplyUpdate calls that run side by side and share                       *)
(* updatedPropIndicesPool (lines 62-67): calls on different entities by    *)
(* different goroutines, or a call made by a handler while another call    *)
(* is in its range loop (a nested call is one that starts and returns      *)
(* between two steps of the outer one).  `slices` is the heap of []int     *)
(* slices the pool's New has made, a pointer is a position in it, and pool *)
(* holds pointers.  sync.Pool (outside this file) is safe for concurrent   *)
(* use: a Get and a Put are atomic, Get removes the pointer it returns,    *)
(* and Get may ignore what the pool holds and call New.  Each call works   *)
(* on the index list of its record; decoding and handlers are left to the  *)
(* single-call model above.                                                *)
(***************************************************************************)
\* the index lists of the records
CallLists == {IndexLoop[rec].list : rec \in Records}

\* ResetSlice leaving the slice as it is
ResetSliceKept(sl) == sl

\* line 88: (*updatedPropIndices)[:0]
ResetSlice(sl) == SubSeq(sl, 1, 0)

\* the pool without its j-th pointer
PoolWithout(pl, j) == SubSeq(pl, 1, j - 1) \o SubSeq(pl, j + 1, Len(pl))

\* line 76 of a new call whose record lists `list`: Get returns the j-th
\* pooled pointer, or for j = 0 the pointer to a new slice (line 64)
CallGet(list, j) ==
    /\ pc = "idle"
    /\ Len(calls) < MaxCalls
    /\ j <= Len(pool)
    /\ LET ptr == IF j = 0 THEN Len(slices) + 1 ELSE pool[j]
           heap == IF j = 0 THEN Append(slices, << >>) ELSE slices
       IN  /\ slices' = heap
           /\ pool' = IF j = 0 THEN pool ELSE PoolWithout(pool, j)
           /\ calls' = Append(calls,
                  [pc |-> "index", own |-> list, ptr |-> ptr, got |-> heap[ptr],
                   n |-> 0, i |-> 1, processed |-> << >>])
    /\ UNCHANGED <<names, value, updateHandlers, boundVars, maps, returned, pc,
                   capture, nRegs, arg, ret, applied>>
    /\ UNCHANGED <<callVars, lifeVars>>

\* lines 78-80 of call c, one turn: the next index of the record is
\* appended to the call's slice; after the last one readFieldIndex returns
\* -1 and the loop ends
CallIndex(c) ==
    /\ c \in DOMAIN calls
    /\ calls[c].pc = "index"
    /\ IF calls[c].n < Len(calls[c].own)
       THEN /\ slices' = [slices EXCEPT ![calls[c].ptr] =
                              Append(@, calls[c].own[calls[c].n + 1])]
            /\ calls' = [calls EXCEPT ![c].n = @ + 1]
       ELSE /\ slices' = slices
            /\ calls' = [calls EXCEPT ![c].pc = "range"]
    /\ UNCHANGED <<names, value, updateHandlers, boundVars, maps, returned, pool,
                   pc, capture, nRegs, arg, ret, applied>>
    /\ UNCHANGED <<callVars, lifeVars>>

\* lines 82-85 of call c, one turn: the i-th index of the call's slice is
\* processed; an index the entity does not have panics, and the call ends
\* without giving its slice back
CallRange(c) ==
    /\ c \in DOMAIN calls
    /\ calls[c].pc = "range"
    /\ calls[c].i <= Len(slices[calls[c].ptr])
    /\ LET p == slices[calls[c].ptr][calls[c].i]
       IN  calls' = IF p \in PropIdx
                    THEN [calls EXCEPT ![c].processed = Append(@, p), ![c].i = @ + 1]
                    ELSE [calls EXCEPT ![c].pc = "panic"]
    /\ UNCHANGED <<names, value, updateHandlers, boundVars, maps, returned, pool,
                   pc, capture, nRegs, arg, ret, applied, slices>>
    /\ UNCHANGED <<callVars, lifeVars>>

\* lines 88-90 of call c: the slice is cut to length 0 and Put back; the
\* call returns and its locals are gone (its pointer is kept as history)
CallReturn(c) ==
    /\ c \in DOMAIN calls
    /\ calls[c].pc = "range"
    /\ calls[c].i > Len(slices[calls[c].ptr])
    /\ slices' = [slices EXCEPT ![calls[c].ptr] = ResetSlice(@)]
    /\ pool' = Append(pool, calls[c].ptr)
    /\ calls' = [calls EXCEPT ![c] =
           [pc |-> "done", own |-> << >>, ptr |-> @.ptr, got |-> @.got,
            n |-> 0, i |-> 1, processed |-> << >>]]
    /\ UNCHANGED <<names, value, updateHandlers, boundVars, maps, returned, pc,
                   capture, nRegs, arg, ret, applied>>
    /\ UNCHANGED <<callVars, lifeVars>>

NextPool ==
    \/ \E list \in CallLists, j \in 0..MaxCalls : CallGet(list, j)
    \/ \E c \in 1..MaxCalls : CallIndex(c)
    \/ \E c \in 1..MaxCalls : CallRange(c)
    \/ \E c \in 1..MaxCalls : CallReturn(c)

SpecPool == Init /\ [][NextPool]_vars

(***************************************************************************)
(* Properties.                                                             *)
(***************************************************************************)
Positions(ev) == {q \in 1..Len(trace) : trace[q].ev = ev}

Largest(S) == CHOOSE x \in S : \A y \in S : y <= x

\* the handlers of property p that are not nil, by serial number
LiveSers(p) ==
    {updateHandlers[p][j].ser : j \in {x \in 1..Len(updateHandlers[p]) :
                                          updateHandlers[p][x].kind # "nil"}}

\* the handler events that follow the decode event at d, up to the next one
FiredAfter(d) ==
    {q \in Positions("handler") :
        /\ d < q
        /\ \A x \in Positions("decode") : x <= d \/ q < x}

\* C1: ApplyUpdate reads the new_way bit first, then the whole list of
\* changed indices up to the end marker before it decodes any value; then
\* it takes the listed indices in list order, and for each one decodes the
\* value and calls the property's handlers before it decodes the next.
C1_UpdateOrder ==
    trace # << >> =>
        LET n == Len(trace)
            I == Positions("index")
            D == Positions("decode")
            m == Cardinality(I)
        IN  /\ trace[1].ev = "newWay"
            /\ m >= 1
            /\ I = 2..(m + 1)
            /\ trace[m + 1].prop = -1
            /\ \A q \in 2..m : trace[q].prop # -1
            /\ \A q \in (m + 2)..n : trace[q].ev \in {"decode", "handler", "panic"}
            /\ \A q \in D : trace[q].prop = trace[1 + Cardinality({x \in D : x <= q})].prop
            /\ \A q \in Positions("handler") :
                  /\ \E x \in D : x < q
                  /\ trace[q].prop = trace[Largest({x \in D : x < q})].prop
            /\ \A d \in D : {trace[q].ser : q \in FiredAfter(d)} = LiveSers(trace[d].prop)

\* both properties decoded in one call, the first one's handler called
\* in between
C1_Witness ==
    /\ Cardinality(Positions("decode")) = 2
    /\ \E q \in Positions("handler") :
          \E x, y \in Positions("decode") : x < q /\ q < y

\* C2: the indices the index loop collects, from previous = -1, are
\* strictly increasing and none is negative, whatever the bits and newWay.
C2_StrictlyIncreasing ==
    \A j \in 1..Len(updatedPropIndices) :
        /\ updatedPropIndices[j] >= 0
        /\ j > 1 => updatedPropIndices[j - 1] < updatedPropIndices[j]

\* three indices collected, with a gap between two of them
C2_Witness ==
    /\ Len(updatedPropIndices) >= 3
    /\ \E j \in 2..Len(updatedPropIndices) :
          updatedPropIndices[j] > updatedPropIndices[j - 1] + 1

\* the number written in the n bits after the first `from` bits, least
\* significant bit first
RECURSIVE SumOver(_, _, _)
SumOver(bits, from, J) ==
    IF J = {} THEN 0
    ELSE LET j == CHOOSE x \in J : TRUE
         IN  bits[from + 1 + j] * (2 ^ j) + SumOver(bits, from, J \ {j})

Number(bits, from, n) == SumOver(bits, from, 0..(n - 1))

\* the algorithm of the field index decoder as specified: the shortcut,
\* the 3-bit offset, or the 7-bit offset whose bits 5-6 select a 2-, 4- or
\* 7-bit replacement; offset 0xFFF ends the list
SpecifiedIndex(bits, previous, nw) ==
    LET off     == IF nw THEN 2 ELSE 0
        seven   == Number(bits, off, 7)
        low     == seven % 32
        pattern == seven - low
        res     == IF nw /\ bits[2] = 1 THEN Number(bits, 2, 3)
                   ELSE IF pattern = 32 THEN low + 32 * Number(bits, off + 7, 2)
                   ELSE IF pattern = 64 THEN low + 32 * Number(bits, off + 7, 4)
                   ELSE IF pattern = 96 THEN low + 32 * Number(bits, off + 7, 7)
                   ELSE seven
    IN  IF nw /\ bits[1] = 1 THEN previous + 1
        ELSE IF res = 4095 THEN -1
        ELSE previous + 1 + res

\* C3: readFieldIndex returns what the specified algorithm gives, for every
\* previous index, newWay and bits; a run of shortcut bits under newWay
\* (every call so far has read one bit) gives previous + 1, previous + 2, ...
C3_DecodesAsSpecified ==
    /\ ret.kind = "index" =>
          ret.val = SpecifiedIndex(arg.reader, arg.lastIndex, newWay)
    /\ (newWay /\ Len(updatedPropIndices) = StreamBits - Len(reader))
          => updatedPropIndices = [j \in 1..Len(updatedPropIndices) |-> j - 1]

\* under newWay, after an earlier index, an offset that needed the 4- or
\* 7-bit extension
C3_Witness ==
    /\ ret.kind = "index"
    /\ newWay
    /\ arg.lastIndex >= 0
    /\ ret.val >= arg.lastIndex + 1 + 128

\* C4: a delta of 0..0xFFE written with the extension patterns is read back
\* as previous + 1 + delta, the whole encoding consumed; the offset 0xFFF is
\* never added: it gives the end marker -1.
C4_RoundTrip ==
    ret.kind = "index" =>
        /\ reader = << >>
        /\ arg.delta < EndMarker => ret.val = arg.lastIndex + 1 + arg.delta
        /\ arg.delta = EndMarker => ret.val = -1

\* the largest legal delta read back
C4_Witness ==
    /\ ret.kind = "index"
    /\ arg.delta = 4094
    /\ ret.val = arg.lastIndex + 4095

\* the listed indices the entity has no property for
OutOfRange == {j \in 1..Len(updatedPropIndices) : updatedPropIndices[j] \notin PropIdx}

\* C5: when a listed index is not below the property count, ApplyUpdate
\* fails: it takes no index after that one and does not return, the step at
\* that index is the panic, and no value is ever written outside the
\* entity's property list.
C5_OutOfRangeFails ==
    /\ [](/\ DOMAIN value = PropIdx
          /\ pc = "range" => \A j \in OutOfRange : i <= j
          /\ pc = "panic" => i \in OutOfRange)
    /\ [][(pc = "range" /\ i \in OutOfRange) => (pc' = "panic" /\ value' = value)]_vars

\* the call has failed at an index listed after one the entity has
C5_Witness ==
    /\ pc = "panic"
    /\ i = 2
    /\ updatedPropIndices[1] \in PropIdx

\* C6: the handlers registered on an updated property are called inside the
\* ApplyUpdate call, in the order of their registration, each with the
\* property's newly decoded value, which is what Value() returns then.
C6_HandlersInOrder ==
    \A d \in Positions("decode") :
        LET p == trace[d].prop
        IN  /\ {trace[q].ser : q \in FiredAfter(d)} = LiveSers(p)
            /\ \A q \in FiredAfter(d) :
                  /\ trace[q].prop = p
                  /\ trace[q].val = trace[d].val
                  /\ trace[q].val = value[p]
            /\ \A q, r \in FiredAfter(d) : q < r => trace[q].ser < trace[r].ser

\* two handlers registered on one property, both called in one update
C6_Witness ==
    \E d \in Positions("decode") :
        /\ Cardinality(FiredAfter(d)) = 2
        /\ capture = 0
        /\ trace[d].val # ZeroValue

\* the handler lists hold no adder of initializeBaseline
NoAdder ==
    \A p \in PropIdx : \A j \in 1..Len(updateHandlers[p]) :
        updateHandlers[p][j].kind # "adder"

Named == {j \in DOMAIN names : names[j] = arg.name}

\* C7: FindProperty returns the one property of that name, nil when there
\* is none, and panics when there are two or more; it never returns one of
\* several.
C7_FindProperty ==
    pc = "found" =>
        /\ Cardinality(Named) = 1 => (ret.kind = "prop" /\ ret.val \in Named)
        /\ Cardinality(Named) = 0 => ret.kind = "nil"
        /\ Cardinality(Named) >= 2 => ret.kind = "panic"

\* the lookup of a name that three properties share has panicked
C7_Witness ==
    /\ pc = "found"
    /\ Cardinality(Named) = 3
    /\ ret.kind = "panic"

\* the decode events of the running call for property p
DecodesOf(p) == {d \in Positions("decode") : trace[d].prop = p}

\* C8: once a property a variable is bound to has been updated, the variable
\* holds the decoded value converted for its kind: the integer, true iff
\* the integer is 1 (BoolInt), the float32, the float32 widened to float64,
\* the string, the vector, the array.
C8_BoundVariableUpdated ==
    \A v \in DOMAIN boundVars : \A d \in DecodesOf(boundVars[v].prop) :
        LET new == trace[d].val
            var == boundVars[v].val
            vt  == boundVars[v].valueType
        IN  /\ boundVars[v].updated
            /\ vt = ValTypeInt     => var = new.IntVal
            /\ vt = ValTypeBoolInt => (var = TRUE <=> new.IntVal = 1) /\ var \in BOOLEAN
            /\ vt = ValTypeFloat32 => var = new.FloatVal
            /\ vt = ValTypeFloat64 => var = <<"float64", new.FloatVal[2]>>
            /\ vt = ValTypeString  => var = new.StringVal
            /\ vt = ValTypeVector  => var = new.VectorVal
            /\ vt = ValTypeArray   => var = new.ArrayVal

\* a BoolInt variable supplied as true is false after its property has
\* been updated to 2
C8_Witness ==
    \E v \in DOMAIN boundVars : \E d \in DecodesOf(boundVars[v].prop) :
        /\ boundVars[v].valueType = ValTypeBoolInt
        /\ boundVars[v].supplied = TRUE
        /\ trace[d].val.IntVal = 2
        /\ boundVars[v].val = FALSE

\* C9: Bind does not write the variable: until the property it is bound to
\* is next updated, the variable holds the value the caller supplied,
\* whatever the property's value is and whatever is applied to the other
\* properties.
C9_BindDoesNotWrite ==
    \A v \in DOMAIN boundVars :
        ~boundVars[v].updated => boundVars[v].val = boundVars[v].supplied

\* a variable bound to a property that has a value, untouched while another
\* property is being updated
C9_Witness ==
    \E v \in DOMAIN boundVars :
        /\ ~boundVars[v].updated
        /\ value[boundVars[v].prop] # ZeroValue
        /\ \E d \in Positions("decode") : trace[d].prop # boundVars[v].prop

\* the values a list of indices and the encoded values after it give
RECURSIVE DecodedValues(_, _, _)
DecodedValues(list, rd, values) ==
    IF list = << >> THEN values
    ELSE LET d == decodeProp(rd)
         IN  DecodedValues(Tail(list), Skip(rd, d.used),
                           [values EXCEPT ![Head(list)] = d.value])

\* the property values a record leaves in an entity that had none
ValuesOf(rec) ==
    DecodedValues(IndexLoop[rec].list, IndexLoop[rec].reader,
                  [p \in PropIdx |-> ZeroValue])

\* C11: a new entity to which the baseline captured from a record has been
\* applied has the property values of a new entity to which the record has
\* been applied with ApplyUpdate, and applying a baseline calls no handler:
\* it leaves the bound variables, the baseline maps and the handler lists
\* alone and records no invocation.
C11_BaselineEquivalent ==
    /\ [](pc = "idle" /\ applied = "update" => value = ValuesOf(arg.reader))
    /\ [](pc = "idle" /\ applied = "baseline" => value = ValuesOf(arg.reader))
    /\ [][(pc = "idle" /\ pc' = "idle" /\ value' # value /\ applied' # "none")
            => /\ trace' = << >>
               /\ boundVars' = boundVars
               /\ maps' = maps
               /\ updateHandlers' = updateHandlers]_vars

\* a new entity with a handler on each property has received the baseline
\* of a record that sets both properties, to different values
C11_Witness ==
    /\ pc = "idle"
    /\ applied = "baseline"
    /\ value[0] # ZeroValue
    /\ value[1] # ZeroValue
    /\ value[0] # value[1]
    /\ \A p \in PropIdx : \E j \in 1..Len(updateHandlers[p]) :
           updateHandlers[p][j].kind = "log"

\* the properties that have the j-th name Position looks up
PositionProps(j) == {p \in DOMAIN names : names[p] = PositionNames[j]}

\* the value of the one property of that name
PositionInput(j) == value[CHOOSE p \in PositionProps(j) : TRUE]

\* C12: with each of the five properties there once, Position returns per
\* axis cell * (1 << m_cellbits) - 16384 + offset (here in halves); with
\* exponent 5, cell X 10 and offset X 1.5 the X coordinate is -16062.5.
C12_PositionFormula ==
    (pc = "positioned" /\ \A j \in 1..5 : Cardinality(PositionProps(j)) = 1) =>
        LET bits == PositionInput(1).IntVal
            off  == PositionInput(5).VectorVal
        IN  /\ ret.kind = "vector"
            /\ \A a \in 1..3 :
                  ret.val[a] = 2 * (PositionInput(1 + a).IntVal * (2 ^ bits) - 16384) + off[a]
            /\ (bits = 5 /\ PositionInput(2).IntVal = 10 /\ off[1] = 3)
                  => ret.val[1] = -32125

\* the position for exponent 5, cell X 10 and offset X 1.5, the names in
\* the reverse order
C12_Witness ==
    /\ pc = "positioned"
    /\ ret.kind = "vector"
    /\ names[0] = "m_vecOrigin"
    /\ PositionInput(1).IntVal = 5
    /\ PositionInput(2).IntVal = 10
    /\ PositionInput(5).VectorVal[1] = 3
    /\ ret.val[1] = -32125

\* C13: Position fails and returns no coordinate when one of the five
\* properties is missing, and when one of the five names is on more than
\* one property.
C13_PositionFails ==
    (pc = "positioned" /\ \E j \in 1..5 : Cardinality(PositionProps(j)) # 1)
        => ret.kind = "panic"

\* Position has failed on an entity that lacks m_vecOrigin only
C13_Witness ==
    /\ pc = "positioned"
    /\ ret.kind = "panic"
    /\ PositionProps(5) = {}
    /\ \A j \in 1..4 : Cardinality(PositionProps(j)) = 1

\* C14: every Destroy call runs each delegate that was registered before
\* the call once, in the order of registration, and none else; a second
\* call does the same again, so within one call no delegate runs twice.
C14_DestroyOnceInOrder ==
    \A c \in DOMAIN destroyed :
        /\ destroyed[c].ran = destroyed[c].before
        /\ \A x, y \in DOMAIN destroyed[c].ran :
              x < y => destroyed[c].ran[x] < destroyed[c].ran[y]

\* Destroy called twice: the first call ran two delegates, one of which
\* registered a third, and the second call ran all three
C14_Witness ==
    /\ Len(destroyed) = 2
    /\ destroyed[1].ran = <<1, 2>>
    /\ destroyed[2].ran = <<1, 2, 3>>

\* the calls that hold a slice: between their Get and their Put
InProgress == {c \in DOMAIN calls : calls[c].pc \in {"index", "range"}}

\* C15: of the ApplyUpdate calls in progress at once no two hold the same
\* slice, and none holds one that is in the pool; every slice a call got
\* from the pool was empty; so the slice of a call in its range loop holds
\* the indices of the call's own record, and the call processes exactly
\* those.
C15_PoolSafe ==
    /\ \A c, d \in InProgress : c # d => calls[c].ptr # calls[d].ptr
    /\ \A c \in InProgress : \A j \in DOMAIN pool : pool[j] # calls[c].ptr
    /\ \A c \in DOMAIN calls :
          /\ calls[c].got = << >>
          /\ calls[c].pc = "range" => slices[calls[c].ptr] = calls[c].own
          /\ calls[c].processed = SubSeq(calls[c].own, 1, Len(calls[c].processed))
          /\ (calls[c].pc = "range" /\ calls[c].i > Len(slices[calls[c].ptr]))
                => calls[c].processed = calls[c].own

\* two calls in their range loops at once, on different records, one of
\* them on the slice an earlier call has put back
C15_Witness ==
    \E c, d \in InProgress : \E e \in DOMAIN calls :
        /\ calls[c].pc = "range" /\ calls[d].pc = "range"
        /\ calls[c].own # calls[d].own
        /\ calls[c].processed # << >> /\ calls[d].processed # << >>
        /\ calls[e].pc = "done"
        /\ calls[e].ptr = calls[c].ptr

\* C16: the map initializeBaseline returns has as keys exactly the indices
\* the record lists, each with the value decoded for that property in the
\* record: while the capture's update runs the map holds the indices taken
\* so far with their decoded values, and from the end of the update to the
\* return the map is not changed.
C16_BaselineKeys ==
    /\ []((capture # 0 /\ pc = "range") =>
            /\ DOMAIN maps[capture] = {updatedPropIndices[j] : j \in 1..(i - 1)}
            /\ \A d \in Positions("decode") :
                  maps[capture][trace[d].prop] = trace[d].val)
    /\ [][(capture # 0 /\ pc \in {"range", "captured"} /\ pc' \in {"captured", "idle"})
            => maps' = maps]_vars
    /\ [][(pc = "captured" /\ pc' = "idle") => returned' = {capture}]_vars

\* a returned map whose only key is property 1, with the value 2
C16_Witness ==
    /\ pc = "idle"
    /\ returned = {1}
    /\ DOMAIN maps[1] = {1}
    /\ maps[1][1] = MkValue(2)

\* the properties decoded so far by the running call, in order
DecodedProps ==
    [k \in 1..Cardinality(Positions("decode")) |->
        trace[CHOOSE d \in Positions("decode") :
                  Cardinality({x \in Positions("decode") : x <= d}) = k].prop]

\* C17: on a record whose index list ends with the end marker ApplyUpdate
\* comes to an end.  The index loop ends when, and only when, readFieldIndex
\* returns -1; after that no index is read (each later step consumes one
\* encoded value and leaves the list alone); the decodes made are one per
\* collected index, in list order, and a call that returns has made one for
\* every collected index and consumed the whole record.
C17_Terminates ==
    /\ (pc = "readIndex") ~> (pc \in {"idle", "panic"})
    /\ [][pc = "readIndex" => (pc' = "range" <=> ret'.val = -1)]_vars
    /\ [][(pc = "range" /\ pc' = "range") =>
            /\ updatedPropIndices' = updatedPropIndices
            /\ idx' = idx
            /\ Len(reader') = Len(reader) - ValBits]_vars
    /\ [](pc = "range" =>
            /\ idx = -1
            /\ DecodedProps = SubSeq(updatedPropIndices, 1, i - 1))
    /\ [][(pc = "range" /\ pc' = "idle") =>
            /\ Len(DecodedProps) = Len(updatedPropIndices)
            /\ reader = << >>]_vars

\* a call that collected two indices has decoded both and is about to
\* return
C17_Witness ==
    /\ pc = "range"
    /\ ret = [kind |-> "index", val |-> -1]
    /\ Len(updatedPropIndices) = 2
    /\ i = 3
    /\ DecodedProps = <<0, 1>>

\* the handlers registered with OnUpdate and Bind so far, by serial number
RegisteredSers == (1..nRegs) \cup {MaxSers + v : v \in DOMAIN boundVars}

\* those of them that are in no property's handler list any more
ClearedSers ==
    RegisteredSers \ UNION {{updateHandlers[p][j].ser : j \in 1..Len(updateHandlers[p])} :
                               p \in PropIdx}

\* C18: initializeBaseline clears every property's handler list, the
\* handlers registered with OnUpdate or Bind before the call included.
\* During the capture's update those handlers are called like any other
\* (every handler of a decoded property that is not nil is called, and the
\* bound variables take the decoded value); once initializeBaseline has
\* returned, no update calls a cleared handler or changes the variable of
\* a cleared binder.
C18_CaptureClearsAll ==
    /\ [][(pc = "captured" /\ pc' = "idle") =>
            \A p \in PropIdx : updateHandlers'[p] = << >>]_vars
    /\ []((capture # 0 /\ pc = "range") =>
            \A d \in Positions("decode") :
                /\ LiveSers(trace[d].prop) \subseteq {trace[q].ser : q \in FiredAfter(d)}
                /\ \A v \in DOMAIN boundVars :
                       (/\ boundVars[v].prop = trace[d].prop
                        /\ MaxSers + v \in LiveSers(trace[d].prop))
                           => boundVars[v].val = Convert(boundVars[v].valueType, trace[d].val))
    /\ [](\A q \in Positions("handler") : trace[q].ser \notin ClearedSers)
    /\ [][\A v \in DOMAIN boundVars :
            MaxSers + v \in ClearedSers => boundVars'[v].val = boundVars[v].val]_vars

\* after a capture has returned, an update has decoded a property whose
\* cleared handlers include a logging handler and a binder; the binder's
\* variable, written before, does not hold the new value
C18_Witness ==
    /\ capture = 0
    /\ returned # {}
    /\ pc = "range"
    /\ \E d \in Positions("decode") :
           /\ \E v \in DOMAIN boundVars :
                  /\ boundVars[v].prop = trace[d].prop
                  /\ MaxSers + v \in ClearedSers
                  /\ boundVars[v].val # boundVars[v].supplied
                  /\ boundVars[v].val # Convert(boundVars[v].valueType, trace[d].val)
                  /\ value[trace[d].prop] = trace[d].val
           /\ \E r \in 1..nRegs : r \in ClearedSers
           /\ FiredAfter(d) = {}

\* C19: ApplyUpdate is not atomic on failure.  When the call fails at an
\* out-of-range index, every property listed before that index holds the
\* value decoded for it in this call and each of its handlers that is not
\* nil has been called with that value; the failing step itself leaves the
\* property values, the bound variables and the baseline maps as they are,
\* and nothing runs after it that could undo them.
C19_NotAtomicOnFailure ==
    /\ [](pc = "panic" =>
            \A j \in 1..(i - 1) :
                LET p == updatedPropIndices[j]
                IN  /\ p \in PropIdx
                    /\ \E d \in DecodesOf(p) :
                           /\ value[p] = trace[d].val
                           /\ \A ser \in LiveSers(p) : \E q \in FiredAfter(d) :
                                  /\ trace[q].ser = ser
                                  /\ trace[q].val = trace[d].val)
    /\ [][(pc = "range" /\ pc' = "panic") =>
            /\ value' = value
            /\ boundVars' = boundVars
            /\ maps' = maps
            /\ SubSeq(trace', 1, Len(trace)) = trace]_vars
    /\ [][pc = "panic" => pc' = "panic" /\ value' = value]_vars

\* the call has failed at the second listed index; the property listed
\* before it holds its new value and two handlers of it have been called
C19_Witness ==
    /\ pc = "panic"
    /\ i = 2
    /\ value[updatedPropIndices[1]] # ZeroValue
    /\ Cardinality({q \in Positions("handler") :
                        trace[q].prop = updatedPropIndices[1]}) = 2

\* the serial numbers of the handlers registered from inside a handler
\* during the running call
RegisteredInCall == {trace[r].ser : r \in Positions("register")}

\* C20: a handler registered with OnUpdate on a property from inside one
\* of that property's handlers, while they are being fired, is appended
\* to the property's list and is not called in that firing: the firing
\* calls the handlers that were in the list when it began, in list order.
\* A later update of the property calls it too, after every handler
\* registered before it.
C20_RegisteredWhileFiring ==
    /\ \A r \in Positions("register") :
           /\ \A q \in Positions("handler") : trace[q].ser # trace[r].ser
           /\ trace[r].ser \in LiveSers(trace[r].prop)
    /\ \A p \in PropIdx : \A j, k \in 1..Len(updateHandlers[p]) :
           j < k => updateHandlers[p][j].ser < updateHandlers[p][k].ser
    /\ \A d \in Positions("decode") :
           /\ {trace[q].ser : q \in FiredAfter(d)} =
                  LiveSers(trace[d].prop) \ RegisteredInCall
           /\ \A q, r \in FiredAfter(d) : q < r => trace[q].ser < trace[r].ser

\* an update calls three handlers of a property, the last of them one
\* that an earlier update's firing registered
C20_Witness ==
    \E d \in Positions("decode") :
        /\ Cardinality(FiredAfter(d)) = 3
        /\ trace[Largest(FiredAfter(d))].ser > MaxRegs
        /\ RegisteredInCall = {}

====
